---- MODULE Spec2Model ----
(***************************************************************************)
(* A model of PMCImageTextExtractor (pubmed_extractor.py): the search      *)
(* client, the article fetcher, the figure extractor, the image            *)
(* downloader and the dataset assembler.  Remote servers, the XML parser,  *)
(* the image decoder and the file system are the environment: every        *)
(* outcome they can have is a nondeterministic choice of the action that   *)
(* calls them.                                                             *)
(***************************************************************************)
EXTENDS Integers, Sequences, FiniteSets, TLC

\* ---------------------------------------------------------------- bounds
\* Longest identifier list the search returns in Spec.
MaxArticles == 12
\* Longest identifier list the search returns in SpecRich.
MaxArticlesRich == 2
\* Most figure elements of a document in SpecExtract.
MaxFigs == 2

\* ------------------------------------------------------ program constants
\* response.status_code != 200
HTTP_OK == 200
\* if i % 5 == 0 or i == len(pmc_ids) - 1
FlushEvery == 5
\* ThreadPoolExecutor(max_workers=5)
MaxWorkers == 5

\* ------------------------------------------------------------- sentinels
\* fig.get("id", default): the attribute is not on the element.
NoAttr == "<no id attribute>"
\* fig.find(".//graphic") is None.
NoGraphic == "<no graphic element>"
\* graphic_element.get("{...}href") is None.
NoHref == "<no href attribute>"
\* Python's None as a return value.
None == [none |-> TRUE]

\* ------------------------------------------------- caption text and regex
\* Text is a tuple of one-character strings.
IsSpace(c) == c \in {" ", "\n", "\t"}

\* re.IGNORECASE: both sides are compared in lower case; the pattern is
\* written in lower case already.
Lower(c) ==
  CASE c = "A" -> "a" [] c = "C" -> "c" [] c = "D" -> "d" [] c = "F" -> "f"
    [] c = "N" -> "n" [] c = "O" -> "o" [] c = "S" -> "s" [] c = "T" -> "t"
    [] c = "U" -> "u" [] OTHER -> c

RECURSIVE LStrip(_)
LStrip(s) == IF s # <<>> /\ IsSpace(Head(s)) THEN LStrip(Tail(s)) ELSE s

RECURSIVE RStrip(_)
RStrip(s) ==
  IF s # <<>> /\ IsSpace(s[Len(s)]) THEN RStrip(SubSeq(s, 1, Len(s) - 1)) ELSE s

\* str.strip()
Strip(s) == RStrip(LStrip(s))

RECURSIVE Join(_)
\* "".join(caption_element.itertext())
Join(texts) == IF texts = <<>> THEN <<>> ELSE Head(texts) \o Join(Tail(texts))

\* The alternatives of r'fundus|oct|octa'.
Keywords ==
  << <<"f", "u", "n", "d", "u", "s">>, <<"o", "c", "t">>, <<"o", "c", "t", "a">> >>

\* The alternative kw matches text at position p.
MatchAt(text, kw, p) ==
  /\ p + Len(kw) - 1 <= Len(text)
  /\ \A k \in 1..Len(kw) : Lower(text[p + k - 1]) = kw[k]

\* A case-sensitive regex: the flag re.IGNORECASE is dropped.
ReSearchCaseSensitive(text) ==
  \E p \in 1..Len(text) : \E a \in 1..Len(Keywords) :
    /\ p + Len(Keywords[a]) - 1 <= Len(text)
    /\ \A k \in 1..Len(Keywords[a]) : text[p + k - 1] = Keywords[a][k]

\* re.search(r'fundus|oct|octa', caption_text, re.IGNORECASE)
ReSearch(text) ==
  \E p \in 1..Len(text) : \E a \in 1..Len(Keywords) : MatchAt(text, Keywords[a], p)

\* ------------------------------------------------------ figure extraction
\* A document is [wellformed, figs]; figs are its fig elements in document
\* order, each [id, captions, graphic, in_group]:
\*   id        the id attribute, or NoAttr
\*   captions  the text of each caption element beneath the fig, in order,
\*             each a sequence of text nodes
\*   graphic   NoGraphic, NoHref, or the xlink:href value of the first graphic
\*   in_group  the fig's parent is a fig-group element

\* root.findall(".//fig")
FindAllFig(doc) == doc.figs

\* root.findall(".//fig-group/fig")
FindGroupFig(doc) == SelectSeq(doc.figs, LAMBDA f : f.in_group)

\* fig_elements = root.findall(".//fig") + root.findall(".//fig-group/fig")
FigElements(doc) == FindAllFig(doc) \o FindGroupFig(doc)

\* str(len(figures)) off by one.
FigureIdOneBased(fig, figures) ==
  IF fig.id # NoAttr THEN fig.id ELSE "fig_" \o ToString(Len(figures) + 1)

\* fig.get("id", f"fig_{len(figures)}")
FigureId(fig, figures) ==
  IF fig.id # NoAttr THEN fig.id ELSE "fig_" \o ToString(Len(figures))

\* caption_text = "".join(caption_element.itertext()).strip(), of the first
\* caption element (fig.find)
CaptionText(fig) == Strip(Join(Head(fig.captions)))

\* if href: a missing attribute and the empty string are both false
HrefTruthy(fig) == fig.graphic \notin {NoGraphic, NoHref, ""}

\* The body of "for fig in fig_elements" decides whether to append.
Accepts(fig) ==
  /\ fig.captions # <<>>
  /\ ReSearch(CaptionText(fig))
  /\ HrefTruthy(fig)

FigureData(fig, figures, pmc_id) ==
  [pmc_id |-> pmc_id,
   figure_id |-> FigureId(fig, figures),
   caption |-> CaptionText(fig),
   image_href |-> fig.graphic]

RECURSIVE ExtractLoop(_, _, _, _, _)
\* The loop over fig_elements from position k on; srcs records, for each
\* appended record, the position in fig_elements it was made from.
ExtractLoop(els, k, figures, srcs, pmc_id) ==
  IF k > Len(els) THEN [figures |-> figures, srcs |-> srcs]
  ELSE IF Accepts(els[k])
       THEN ExtractLoop(els, k + 1,
                        Append(figures, FigureData(els[k], figures, pmc_id)),
                        Append(srcs, k), pmc_id)
       ELSE ExtractLoop(els, k + 1, figures, srcs, pmc_id)

\* extract_figure_data: a parse failure is caught and yields [].
ExtractFigureData(doc, pmc_id) ==
  IF ~doc.wellformed THEN [figures |-> <<>>, srcs |-> <<>>]
  ELSE ExtractLoop(FigElements(doc), 1, <<>>, <<>>, pmc_id)

\* --------------------------------------------------------- image download
\* What the environment does during one download_figure_image call: the
\* article page request, the two regex searches of the page, the image
\* request, Image.open and img.save.  A request either raises (exc) or
\* answers with a status.
DownloadEnvs ==
  { [page_exc |-> TRUE],
    [page_exc |-> FALSE, page_status |-> 404],
    [page_exc |-> FALSE, page_status |-> HTTP_OK, match_src |-> FALSE,
     match_id |-> FALSE],
    [page_exc |-> FALSE, page_status |-> HTTP_OK, match_src |-> TRUE,
     match_id |-> FALSE, image_exc |-> TRUE],
    [page_exc |-> FALSE, page_status |-> HTTP_OK, match_src |-> FALSE,
     match_id |-> TRUE, image_exc |-> FALSE, image_status |-> 500],
    [page_exc |-> FALSE, page_status |-> HTTP_OK, match_src |-> TRUE,
     match_id |-> FALSE, image_exc |-> FALSE, image_status |-> HTTP_OK,
     decode_ok |-> FALSE],
    [page_exc |-> FALSE, page_status |-> HTTP_OK, match_src |-> TRUE,
     match_id |-> FALSE, image_exc |-> FALSE, image_status |-> HTTP_OK,
     decode_ok |-> TRUE, save_ok |-> FALSE],
    [page_exc |-> FALSE, page_status |-> HTTP_OK, match_src |-> TRUE,
     match_id |-> FALSE, image_exc |-> FALSE, image_status |-> HTTP_OK,
     decode_ok |-> TRUE, save_ok |-> TRUE],
    [page_exc |-> FALSE, page_status |-> HTTP_OK, match_src |-> FALSE,
     match_id |-> TRUE, image_exc |-> FALSE, image_status |-> HTTP_OK,
     decode_ok |-> TRUE, save_ok |-> TRUE] }

\* self.output_dir, self.image_dir = os.path.join(output_dir, "images")
OutputDir == "pmc_dataset"
ImageDir == <<OutputDir, "images">>

\* image_filename = f"PMC{pmc_id}_{figure_data['figure_id']}.jpg"
ImageFilename(pmc_id, figure_id) == "PMC" \o pmc_id \o "_" \o figure_id \o ".jpg"

\* os.path.join(self.image_dir, image_filename): a path is its components.
PathJoin(dir, name) == Append(dir, name)

\* os.path.basename
Basename(path) == path[Len(path)]

\* The except clause misses the Image.open failure: the record goes back
\* with its path although no image was decoded.
DownloadFigureImageDecodeUncaught(figure_data, pmc_id, env) ==
  IF env.page_exc THEN None
  ELSE IF env.page_status # HTTP_OK THEN None
  ELSE IF ~env.match_src /\ ~env.match_id THEN None
  ELSE IF env.image_exc THEN None
  ELSE IF env.image_status # HTTP_OK THEN None
  ELSE IF env.decode_ok /\ ~env.save_ok THEN None
  ELSE [pmc_id |-> figure_data.pmc_id,
        figure_id |-> figure_data.figure_id,
        caption |-> figure_data.caption,
        image_href |-> figure_data.image_href,
        local_image_path |->
          PathJoin(ImageDir, ImageFilename(pmc_id, figure_data.figure_id))]

\* download_figure_image: every failure, raised or not, ends in None.
DownloadFigureImage(figure_data, pmc_id, env) ==
  IF env.page_exc THEN None
  ELSE IF env.page_status # HTTP_OK THEN None
  ELSE IF ~env.match_src /\ ~env.match_id THEN None
  ELSE IF env.image_exc THEN None
  ELSE IF env.image_status # HTTP_OK THEN None
  ELSE IF ~env.decode_ok THEN None
  ELSE IF ~env.save_ok THEN None
  ELSE [pmc_id |-> figure_data.pmc_id,
        figure_id |-> figure_data.figure_id,
        caption |-> figure_data.caption,
        image_href |-> figure_data.image_href,
        local_image_path |->
          PathJoin(ImageDir, ImageFilename(pmc_id, figure_data.figure_id))]

\* pair_data of process_article
PairData(processed_figure, pmc_id) ==
  [image_path |-> Basename(processed_figure.local_image_path),
   caption |-> processed_figure.caption,
   pmc_id |-> pmc_id,
   figure_id |-> processed_figure.figure_id]

\* The new entry is put at the front of the collection.
FigureStepPrepend(pairs, count, figure, pmc_id, env) ==
  LET processed_figure == DownloadFigureImage(figure, pmc_id, env) IN
  IF processed_figure # None
  THEN [pairs |-> <<PairData(processed_figure, pmc_id)>> \o pairs,
        count |-> count + 1]
  ELSE [pairs |-> pairs, count |-> count]

\* One pass of "for figure in figures": the collection and the count after
\* the download of figure under env.
FigureStep(pairs, count, figure, pmc_id, env) ==
  LET processed_figure == DownloadFigureImage(figure, pmc_id, env) IN
  IF processed_figure # None
  THEN [pairs |-> Append(pairs, PairData(processed_figure, pmc_id)),
        count |-> count + 1]
  ELSE [pairs |-> pairs, count |-> count]

RECURSIVE FigureLoop(_, _, _, _, _, _)
\* The whole loop of process_article over figures from position k on, under
\* the environments envs (one per figure).
FigureLoop(pairs, count, figs, envs, k, pmc_id) ==
  IF k > Len(figs) THEN [pairs |-> pairs, count |-> count]
  ELSE LET s == FigureStep(pairs, count, figs[k], pmc_id, envs[k]) IN
       FigureLoop(s.pairs, s.count, figs, envs, k + 1, pmc_id)

\* ------------------------------------------------------------ metadata file
\* json.dump(self.metadata, f, indent=2): an object is its key/value pairs
\* in insertion order.
JsonDumpEntry(e) ==
  << <<"image_path", e.image_path>>, <<"caption", e.caption>>,
     <<"pmc_id", e.pmc_id>>, <<"figure_id", e.figure_id>> >>

JsonDump(pairs) == [k \in 1..Len(pairs) |-> JsonDumpEntry(pairs[k])]

\* json.load: the value stored under key.
JsonGet(obj, key) == obj[CHOOSE k \in 1..Len(obj) : obj[k][1] = key][2]

JsonLoadEntry(obj) ==
  [image_path |-> JsonGet(obj, "image_path"),
   caption |-> JsonGet(obj, "caption"),
   pmc_id |-> JsonGet(obj, "pmc_id"),
   figure_id |-> JsonGet(obj, "figure_id")]

JsonLoad(text) == [k \in 1..Len(text) |-> JsonLoadEntry(text[k])]

\* The periodic flush counts articles from one: after the 5th, 10th, ...
ShouldFlushOneBased(i, n) == (i + 1) % FlushEvery = 0 \/ i = n - 1

\* The periodic flush drops the "after the last article" case.
ShouldFlushNoLast(i, n) == i % FlushEvery = 0

\* The periodic flush fires one article late.
ShouldFlushLate(i, n) == i % (FlushEvery + 1) = 0 \/ i = n - 1

\* if i % 5 == 0 or i == len(pmc_ids) - 1
ShouldFlush(i, n) == i % FlushEvery = 0 \/ i = n - 1

\* ------------------------------------------------------------------ state
VARIABLES
  pc,            \* where the controlling thread is
  limit_results, \* create_dataset's limit_articles
  max_results,   \* search_articles' max_results (retmax)
  search_log,    \* history: the requests search_articles has issued
  pmc_ids,       \* the identifier list
  i,             \* enumerate index of the article loop
  xml_string,    \* process_article's xml_string (a document, or None)
  figures,       \* process_article's figures
  srcs,          \* history: the fig_elements position of each of figures
  j,             \* position of the figure loop in figures
  envs,          \* history: the environment of each download of this article
  pairs_count,   \* process_article's pairs_count
  total_pairs,   \* create_dataset's total_pairs
  metadata,      \* self.metadata["pairs"]
  disk,          \* the metadata file
  executor,      \* the ThreadPoolExecutor
  started,       \* history: the article indices begun, in order
  in_progress,   \* the article indices begun and not yet finished
  flush_log,     \* history: the article indices after which the file was written
  retval         \* what create_dataset returned

vars ==
  <<pc, limit_results, max_results, search_log, pmc_ids, i, xml_string, figures,
    srcs, j, envs, pairs_count, total_pairs, metadata, disk, executor, started,
    in_progress, flush_log, retval>>

\* The variables of search_articles.
searchVars == <<limit_results, max_results, search_log, pmc_ids>>
\* The locals of process_article.
articleVars == <<xml_string, figures, srcs, j, envs, pairs_count>>
\* The history of the article loop.
loopHist == <<started, in_progress>>

\* ----------------------------------------------------------------- inputs
\* The identifier the server lists at position k.
PmcId(k) == ToString(100 + k)

\* Status codes a server answers with.
Statuses == {HTTP_OK, 404, 500}

\* Caption texts (each the text nodes of one caption element).
CapFundus == << <<"F", "u", "n">>, <<"D", "u", "s", " ">> >>
CapOct == << <<" ", "O", "C", "T", " ", "s", "c", "a", "n">> >>
CapDoctor == << <<"d", "o", "c", "t", "o", "r">> >>
CapUnrelated == << <<"u", "n", "r", "e", "l", "a", "t", "e", "d">> >>

\* Documents of the runs: one eligible figure, or a parse failure.
DocOneFig ==
  [wellformed |-> TRUE,
   figs |-> << [id |-> "F1", captions |-> <<CapFundus>>, graphic |-> "g1",
               in_group |-> FALSE] >>]
DocMalformed == [wellformed |-> FALSE, figs |-> <<>>]
\* A figure in a fig-group, a figure without id, a figure off topic.
DocGroup ==
  [wellformed |-> TRUE,
   figs |-> << [id |-> "F1", captions |-> <<CapFundus>>, graphic |-> "g1",
               in_group |-> TRUE],
              [id |-> NoAttr, captions |-> <<CapOct>>, graphic |-> "g2",
               in_group |-> FALSE],
              [id |-> "F3", captions |-> <<CapUnrelated>>, graphic |-> "g3",
               in_group |-> FALSE] >>]
RunDocs == {DocOneFig, DocMalformed}
RichDocs == {DocGroup, DocMalformed}

\* Figure elements and documents of SpecExtract.
\* What a fig element holds: a caption on topic with an image, and one way
\* each of falling short of that.
FigContents ==
  { [captions |-> <<CapFundus>>, graphic |-> "g1"],
    [captions |-> <<CapDoctor>>, graphic |-> "g1"],
    [captions |-> <<CapUnrelated>>, graphic |-> "g1"],
    [captions |-> <<>>, graphic |-> "g1"],
    [captions |-> <<CapFundus>>, graphic |-> NoGraphic],
    [captions |-> <<CapFundus>>, graphic |-> NoHref],
    [captions |-> <<CapFundus>>, graphic |-> ""] }
FigShapes ==
  {[id |-> d, captions |-> c.captions, graphic |-> c.graphic, in_group |-> g] :
     d \in {NoAttr, "F1", "fig_0"}, c \in FigContents, g \in BOOLEAN}
SeqsUpTo(S, n) == UNION {[1..m -> S] : m \in 0..n}
ExtractDocs ==
  {[wellformed |-> TRUE, figs |-> fs] : fs \in SeqsUpTo(FigShapes, MaxFigs)}
    \cup {DocMalformed}

\* ------------------------------------------------------------------- Init
NoFile == [exists |-> FALSE, text |-> <<>>]
Idle == [state |-> "none", max_workers |-> 0, submitted |-> 0]

\* The state after __init__, at the call of create_dataset(query, limit, maxN).
InitRun(maxN) ==
  /\ pc = "start"
  /\ limit_results \in BOOLEAN
  /\ max_results = maxN
  /\ search_log = <<>>
  /\ pmc_ids = <<>>
  /\ i = 0
  /\ xml_string = None
  /\ figures = <<>>
  /\ srcs = <<>>
  /\ j = 0
  /\ envs = <<>>
  /\ pairs_count = 0
  /\ total_pairs = 0
  /\ metadata = <<>>
  /\ disk = NoFile
  /\ executor = Idle
  /\ started = <<>>
  /\ in_progress = {}
  /\ flush_log = <<>>
  /\ retval = None

Init == InitRun(MaxArticles)
InitRich == InitRun(MaxArticlesRich)

\* The state at a call of extract_figure_data(xml_string, pmc_id) on its own.
InitExtract ==
  /\ pc = "extract"
  /\ limit_results = TRUE
  /\ max_results = 0
  /\ search_log = <<>>
  /\ pmc_ids = <<PmcId(1)>>
  /\ i = 0
  /\ xml_string \in ExtractDocs
  /\ figures = <<>>
  /\ srcs = <<>>
  /\ j = 0
  /\ envs = <<>>
  /\ pairs_count = 0
  /\ total_pairs = 0
  /\ metadata = <<>>
  /\ disk = NoFile
  /\ executor = Idle
  /\ started = <<0>>
  /\ in_progress = {0}
  /\ flush_log = <<>>
  /\ retval = None

\* ---------------------------------------------------------- search_articles
\* What the server can answer to the count request: nothing (the request
\* raises), or a status with a body that is a number or is not.
CountResponses(maxN) ==
  {[exc |-> TRUE]}
    \cup {[exc |-> FALSE, status |-> HTTP_OK, numeric |-> TRUE, total |-> t] :
            t \in {0, 1, maxN}}
    \cup {[exc |-> FALSE, status |-> s, numeric |-> FALSE, total |-> 0] :
            s \in Statuses}

\* What the server can answer to the identifier request: the body is not
\* JSON, JSON of another shape, or lists n identifiers (at most retmax).
IdResponses(maxN, retmax) ==
  {[exc |-> TRUE]}
    \cup {[exc |-> FALSE, status |-> HTTP_OK, body |-> "idlist", n |-> n] :
            n \in {m \in 0..maxN : m <= retmax}}
    \cup {[exc |-> FALSE, status |-> s, body |-> b, n |-> 0] :
            s \in Statuses, b \in {"not_json", "other_shape"}}

\* Only "not found" is taken for a failure.
StatusFailedOnly404(status) == status = 404

\* response.status_code != 200
StatusFailed(status) == status # HTTP_OK

LogEntry(req, resp) ==
  [req |-> req, answered |-> ~resp.exc,
   status |-> IF resp.exc THEN 0 ELSE resp.status]

\* search_articles up to the count response (lines 51-82).  When the call
\* returns, its parameters limit_results and max_results are gone with its
\* frame: they are reset.
SearchCount(maxN) ==
  /\ pc = "start"
  /\ \E resp \in CountResponses(maxN) :
       /\ search_log' = Append(search_log, LogEntry("count", resp))
       /\ IF resp.exc
          THEN \* requests.get raises; nothing catches it
               /\ pc' = "raised"
               /\ UNCHANGED <<limit_results, max_results, pmc_ids>>
          ELSE IF StatusFailed(resp.status)
          THEN \* return []
               /\ pc' = "search_returned"
               /\ pmc_ids' = <<>>
               /\ limit_results' = FALSE
               /\ max_results' = 0
          ELSE IF ~resp.numeric
          THEN \* int(count_response.text.strip()) raises ValueError
               /\ pc' = "raised"
               /\ UNCHANGED <<limit_results, max_results, pmc_ids>>
          ELSE /\ pc' = "search_ids"
               /\ max_results' = IF ~limit_results THEN resp.total ELSE max_results
               /\ UNCHANGED <<limit_results, pmc_ids>>
  /\ UNCHANGED <<i, articleVars, total_pairs, metadata, disk, executor, loopHist,
                 flush_log, retval>>

\* search_articles from the identifier request on (lines 84-106).
SearchIds(maxN) ==
  /\ pc = "search_ids"
  /\ \E resp \in IdResponses(maxN, max_results) :
       /\ search_log' = Append(search_log, LogEntry("ids", resp))
       /\ IF resp.exc
          THEN /\ pc' = "raised"
               /\ UNCHANGED <<limit_results, max_results, pmc_ids>>
          ELSE IF StatusFailed(resp.status)
          THEN /\ pc' = "search_returned"
               /\ pmc_ids' = <<>>
               /\ limit_results' = FALSE
               /\ max_results' = 0
          ELSE IF resp.body # "idlist"
          THEN \* response.json() raises, or data["esearchresult"]["idlist"] does
               /\ pc' = "raised"
               /\ UNCHANGED <<limit_results, max_results, pmc_ids>>
          ELSE /\ pc' = "search_returned"
               /\ pmc_ids' = [k \in 1..resp.n |-> PmcId(k)]
               /\ limit_results' = FALSE
               /\ max_results' = 0
  /\ UNCHANGED <<i, articleVars, total_pairs, metadata, disk, executor, loopHist,
                 flush_log, retval>>

\* ----------------------------------------------------------- create_dataset
\* if not pmc_ids: return self.output_dir; else the pool is created and the
\* loop entered (lines 327-335).
CheckIds ==
  /\ pc = "search_returned"
  /\ IF pmc_ids = <<>>
     THEN /\ pc' = "returned"
          /\ retval' = OutputDir
          /\ UNCHANGED executor
     ELSE /\ pc' = "loop"
          /\ executor' = [state |-> "open", max_workers |-> MaxWorkers,
                          submitted |-> 0]
          /\ UNCHANGED retval
  /\ UNCHANGED <<searchVars, i, articleVars, total_pairs, metadata, disk,
                 loopHist, flush_log>>

\* What the server can answer to the article request.
EmptyText == [empty |-> TRUE]
FetchResponses(docs) ==
  {[exc |-> TRUE]}
    \cup {[exc |-> FALSE, status |-> HTTP_OK, text |-> d] : d \in docs \cup {EmptyText}}
    \cup {[exc |-> FALSE, status |-> s, text |-> EmptyText] : s \in Statuses \ {HTTP_OK}}

\* fetch_article: None on a failed status, the body otherwise.
FetchArticle(resp) == IF StatusFailed(resp.status) THEN None ELSE resp.text

\* "if not xml_string"
Falsy(text) == text \in {None, EmptyText}

\* The loop takes the next identifier and process_article fetches it
\* (lines 335-337, 284-286).
Fetch(docs) ==
  /\ pc = "loop"
  /\ i < Len(pmc_ids)
  /\ started' = Append(started, i)
  /\ \E resp \in FetchResponses(docs) :
       IF resp.exc
       THEN \* requests.get raises through process_article and create_dataset
            /\ pc' = "raised"
            /\ in_progress' = in_progress \cup {i}
            /\ UNCHANGED articleVars
       ELSE /\ in_progress' = in_progress \cup {i}
            /\ xml_string' = FetchArticle(resp)
            /\ pc' = IF Falsy(FetchArticle(resp)) THEN "article_return" ELSE "extract"
            /\ UNCHANGED <<figures, srcs, j, envs, pairs_count>>
  /\ UNCHANGED <<searchVars, i, total_pairs, metadata, disk, executor, flush_log,
                 retval>>

\* figures = self.extract_figure_data(xml_string, pmc_id); pairs_count = 0
ExtractFigures ==
  /\ pc = "extract"
  /\ LET r == ExtractFigureData(xml_string, pmc_ids[i + 1]) IN
       /\ figures' = r.figures
       /\ srcs' = r.srcs
       /\ pc' = IF r.figures = <<>> THEN "article_return" ELSE "figures"
  /\ j' = 1
  /\ pairs_count' = 0
  /\ UNCHANGED <<searchVars, i, xml_string, envs, total_pairs, metadata, disk,
                 executor, loopHist, flush_log, retval>>

\* One pass of "for figure in figures" (lines 293-308).
DownloadFigure ==
  /\ pc = "figures"
  /\ j <= Len(figures)
  /\ \E env \in DownloadEnvs :
       LET s == FigureStep(metadata, pairs_count, figures[j], pmc_ids[i + 1], env) IN
         /\ metadata' = s.pairs
         /\ pairs_count' = s.count
         /\ envs' = Append(envs, env)
  /\ j' = j + 1
  /\ pc' = IF j = Len(figures) THEN "article_return" ELSE "figures"
  /\ UNCHANGED <<searchVars, i, xml_string, figures, srcs, total_pairs, disk,
                 executor, loopHist, flush_log, retval>>

\* process_article returns; total_pairs += pairs (lines 310, 337-339).
ReturnArticle ==
  /\ pc = "article_return"
  /\ total_pairs' = total_pairs + pairs_count
  /\ in_progress' = in_progress \ {i}
  /\ xml_string' = None
  /\ figures' = <<>>
  /\ srcs' = <<>>
  /\ j' = 0
  /\ envs' = <<>>
  /\ pairs_count' = 0
  /\ pc' = "flush"
  /\ UNCHANGED <<searchVars, i, metadata, disk, executor, started, flush_log,
                 retval>>

\* The periodic save (lines 341-344).
Flush ==
  /\ pc = "flush"
  /\ IF ShouldFlush(i, Len(pmc_ids))
     THEN /\ disk' = [exists |-> TRUE, text |-> JsonDump(metadata)]
          /\ flush_log' = Append(flush_log, i)
     ELSE UNCHANGED <<disk, flush_log>>
  /\ pc' = "sleep"
  /\ UNCHANGED <<searchVars, i, articleVars, total_pairs, metadata, executor,
                 loopHist, retval>>

\* enumerate's step.
NextIndex(k) == k + 1

\* time.sleep(1) and the loop's next turn (line 347).
Sleep ==
  /\ pc = "sleep"
  /\ i' = NextIndex(i)
  /\ pc' = "loop"
  /\ UNCHANGED <<searchVars, articleVars, total_pairs, metadata, disk, executor,
                 loopHist, flush_log, retval>>

\* The list is exhausted: the pool is shut down and the directory returned
\* (lines 348-353).
Finish ==
  /\ pc = "loop"
  /\ i >= Len(pmc_ids)
  /\ executor' = [executor EXCEPT !.state = "shutdown"]
  /\ retval' = OutputDir
  /\ pc' = "returned"
  /\ UNCHANGED <<searchVars, i, articleVars, total_pairs, metadata, disk,
                 loopHist, flush_log>>

\* --------------------------------------------------------- specifications
\* Runs of create_dataset over long identifier lists of one-figure articles.
Next ==
  \/ SearchCount(MaxArticles)
  \/ SearchIds(MaxArticles)
  \/ CheckIds
  \/ Fetch(RunDocs)
  \/ ExtractFigures
  \/ DownloadFigure
  \/ ReturnArticle
  \/ Flush
  \/ Sleep
  \/ Finish

Spec == Init /\ [][Next]_vars

\* Runs of create_dataset over short identifier lists of articles with
\* several figures.
NextRich ==
  \/ SearchCount(MaxArticlesRich)
  \/ SearchIds(MaxArticlesRich)
  \/ CheckIds
  \/ Fetch(RichDocs)
  \/ ExtractFigures
  \/ DownloadFigure
  \/ ReturnArticle
  \/ Flush
  \/ Sleep
  \/ Finish

SpecRich == InitRich /\ [][NextRich]_vars

\* Calls of extract_figure_data on bounded documents.
NextExtract == ExtractFigures

SpecExtract == InitExtract /\ [][NextExtract]_vars

\* ------------------------------------------------ vocabulary of the claims
Range(q) == {q[k] : k \in 1..Len(q)}
IsPrefix(p, q) == Len(p) <= Len(q) /\ \A k \in 1..Len(p) : p[k] = q[k]
StrictlyIncreasing(q) == \A a, b \in 1..Len(q) : a < b => q[a] < q[b]
RemoveAt(q, k) == SubSeq(q, 1, k - 1) \o SubSeq(q, k + 1, Len(q))

\* The environment env lets a download through to the end: both requests
\* answer 200, the page names the image, the image decodes and is saved.
DownloadSucceeds(env) ==
  /\ ~env.page_exc
  /\ env.page_status = HTTP_OK
  /\ (env.match_src \/ env.match_id)
  /\ ~env.image_exc
  /\ env.image_status = HTTP_OK
  /\ env.decode_ok
  /\ env.save_ok

\* The entries read back from the metadata file (none when there is no file).
OnDisk == IF disk.exists THEN JsonLoad(disk.text) ELSE <<>>
\* The file exists and its "pairs" list is the collection in memory.
DiskIsMemory == disk.exists /\ JsonLoad(disk.text) = metadata

\* The zero-based list position of the article an entry belongs to.
ArticleIndexOf(e) == CHOOSE k \in 0..(Len(pmc_ids) - 1) : pmc_ids[k + 1] = e.pmc_id
\* The articles whose flush point has passed.
FlushPointsPassed == IF pc = "sleep" THEN 0..i ELSE 0..(i - 1)

\* --------------------------------------------------------------------- C1
\* C1: over an identifier list of length n the metadata file is written
\* right after the article at index k for every k with k mod 5 = 0 and for
\* k = n - 1, at no other index, whatever the articles produced; the write
\* leaves the file equal to the collection; and with 12 articles of which
\* 6..11 yield nothing the file holds the whole collection from the flush of
\* article 5 on.
C1_FlushSchedule ==
  LET n == Len(pmc_ids) IN
  /\ StrictlyIncreasing(flush_log)
  /\ Range(flush_log) = {k \in FlushPointsPassed : k % 5 = 0 \/ k = n - 1}
  /\ (pc = "sleep" /\ (i % 5 = 0 \/ i = n - 1)) => DiskIsMemory
  /\ ( /\ n = 12
       /\ i > 5 \/ (i = 5 /\ pc = "sleep")
       /\ \A k \in 1..Len(metadata) : ArticleIndexOf(metadata[k]) <= 5 )
     => DiskIsMemory

\* Twelve articles; the one at index 5 produced nothing, earlier ones did,
\* and its flush has just written them all.
C1_Witness ==
  /\ Len(pmc_ids) = 12
  /\ pc = "sleep"
  /\ i = 5
  /\ flush_log = <<0, 5>>
  /\ Len(metadata) >= 2
  /\ \A k \in 1..Len(metadata) : ArticleIndexOf(metadata[k]) \in 1..4
  /\ DiskIsMemory

\* --------------------------------------------------------------------- C2
\* C2: no outcome of an external step ends the run with an error:
\* create_dataset never terminates by an exception.
C2_NeverRaises == pc # "raised"

\* --------------------------------------------------------------------- C3
\* The entries in memory that the metadata file does not hold.
Unflushed == {k \in 1..Len(metadata) : metadata[k] \notin Range(OnDisk)}

C4_FlushedAtReturn == pc = "returned" => DiskIsMemory

\* C4 amended: whenever create_dataset returns after a non-empty identifier
\* list, the metadata file exists and its pairs equal the collection.
C4_FlushedAtReturnNonEmpty ==
  (pc = "returned" /\ pmc_ids # <<>>) => DiskIsMemory

\* A return where the last article, off the 5-article grid, added an entry.
C4_Witness ==
  /\ pc = "returned"
  /\ Len(pmc_ids) = 3
  /\ Len(metadata) = 3
  /\ DiskIsMemory

\* --------------------------------------------------------------------- C5
\* C5: once a request of search_articles is answered with a status other
\* than 200, that request is the last one the call issues, the call returns
\* the empty list and raises nothing.
C5_SearchFailsEmpty ==
  /\ Len(search_log) <= 2
  /\ \A k \in 1..Len(search_log) :
       (search_log[k].answered /\ search_log[k].status # 200) =>
         /\ k = Len(search_log)
         /\ pc \in {"search_returned", "returned"}
         /\ pmc_ids = <<>>

\* The count succeeded, the identifier request came back 500, the call
\* returned.
C5_Witness ==
  /\ pc = "search_returned"
  /\ Len(search_log) = 2
  /\ search_log[2] = [req |-> "ids", answered |-> TRUE, status |-> 500]
  /\ pmc_ids = <<>>

\* ------------------------------------------------ extract_figure_data claims
\* extract_figure_data has returned for the document in xml_string.
Extracted == pc \in {"figures", "article_return"} /\ xml_string # None /\ envs = <<>>

\* The figure element of the document (its position in document order) that
\* the returned record q was made from.
OriginOf(q) ==
  LET n == Len(xml_string.figs)
      grouped == {f \in 1..n : xml_string.figs[f].in_group} IN
  IF srcs[q] <= n THEN srcs[q]
  ELSE CHOOSE f \in grouped :
         Cardinality({g \in grouped : g <= f}) = srcs[q] - n

\* The returned records made from figure element f.
RecordsOf(f) == {q \in 1..Len(figures) : OriginOf(q) = f}

\* The caption of a figure element as the claims speak of it: all the text
\* of its caption element, nothing when it has none.
CaptionOf(fig) == IF fig.captions = <<>> THEN <<>> ELSE Join(Head(fig.captions))

\* text contains word, letter case ignored.
ContainsIgnoringCase(text, word) ==
  \E a \in 1..Len(text) :
    /\ a + Len(word) - 1 <= Len(text)
    /\ [k \in 1..Len(word) |-> Lower(text[a + k - 1])] = word

HasKeyword(fig) ==
  \/ ContainsIgnoringCase(CaptionOf(fig), <<"f", "u", "n", "d", "u", "s">>)
  \/ ContainsIgnoringCase(CaptionOf(fig), <<"o", "c", "t">>)
  \/ ContainsIgnoringCase(CaptionOf(fig), <<"o", "c", "t", "a">>)

\* The figure carries a graphic element with a non-empty image reference.
HasImageRef(fig) == fig.graphic # NoGraphic /\ fig.graphic # NoHref /\ fig.graphic # ""

\* The two-figure fixture: A's caption contains "fundus", B's is "unrelated".
TwoFigureFixture ==
  /\ Len(xml_string.figs) = 2
  /\ ContainsIgnoringCase(CaptionOf(xml_string.figs[1]), <<"f", "u", "n", "d", "u", "s">>)
  /\ xml_string.figs[2].captions = <<CapUnrelated>>

\* --------------------------------------------------------------------- C6
\* C6 as claimed: a figure whose caption contains a keyword is in the
\* output, one whose caption contains none is not, and the two-figure
\* fixture yields exactly one record, A's.
C6_KeywordDecides ==
  (Extracted /\ xml_string.wellformed) =>
    /\ \A f \in 1..Len(xml_string.figs) :
         HasKeyword(xml_string.figs[f]) <=> RecordsOf(f) # {}
    /\ TwoFigureFixture => (Len(figures) = 1 /\ OriginOf(1) = 1)

\* C6 amended: a figure is in the output exactly when its caption contains
\* a keyword and it carries a graphic with a non-empty image reference; it
\* is then returned once, or twice when its parent is a fig-group; so the
\* fixture yields only records of A, exactly one when A has an image
\* reference and is no child of a fig-group.
C6_KeywordAndGraphicDecide ==
  (Extracted /\ xml_string.wellformed) =>
    /\ \A f \in 1..Len(xml_string.figs) :
         LET fig == xml_string.figs[f] IN
         Cardinality(RecordsOf(f)) =
           IF HasKeyword(fig) /\ HasImageRef(fig)
           THEN (IF fig.in_group THEN 2 ELSE 1)
           ELSE 0
    /\ TwoFigureFixture =>
         /\ \A q \in 1..Len(figures) : OriginOf(q) = 1
         /\ (HasImageRef(xml_string.figs[1]) /\ ~xml_string.figs[1].in_group)
              => Len(figures) = 1

\* The fixture, both figures with an image, A with mixed-case "FunDus":
\* one record, A's.
C6_Witness ==
  /\ Extracted
  /\ TwoFigureFixture
  /\ xml_string.figs[1].captions = <<CapFundus>>
  /\ xml_string.figs[1].graphic = "g1"
  /\ xml_string.figs[2].graphic = "g1"
  /\ Len(figures) = 1
  /\ OriginOf(1) = 1

\* --------------------------------------------------------------------- C7
\* C7: no two records returned by one extract_figure_data call carry the
\* same figure_id.
C7_FigureIdUnique ==
  Extracted =>
    \A a, b \in 1..Len(figures) :
      a # b => figures[a].figure_id # figures[b].figure_id

\* --------------------------------------------------------------------- C8
\* C8 as claimed: figure_id is the id attribute when there is one, and
\* otherwise fig_<index> with <index> the figure's (zero-based) position
\* among the located figure elements.
C8_PlaceholderByElementPosition ==
  Extracted =>
    \A q \in 1..Len(figures) :
      LET fig == xml_string.figs[OriginOf(q)] IN
      figures[q].figure_id =
        IF fig.id # NoAttr THEN fig.id ELSE "fig_" \o ToString(srcs[q] - 1)

\* C8 amended: figure_id is the id attribute when there is one, and
\* otherwise fig_<index> with <index> the number of records accepted before
\* this one, that is the record's zero-based position in the returned list.
C8_PlaceholderByRecordPosition ==
  Extracted =>
    \A q \in 1..Len(figures) :
      LET fig == xml_string.figs[OriginOf(q)] IN
      figures[q].figure_id =
        IF fig.id # NoAttr THEN fig.id ELSE "fig_" \o ToString(q - 1)

\* A figure without caption is skipped, the next one has no id: the second
\* located element is the first record and gets the placeholder fig_0.
C8_Witness ==
  /\ Extracted
  /\ Len(xml_string.figs) = 2
  /\ xml_string.figs[1].captions = <<>>
  /\ xml_string.figs[2].id = NoAttr
  /\ srcs = <<2>>
  /\ figures[1].figure_id = "fig_0"

\* --------------------------------------------------------------------- C9
\* The download loop of the current article has processed all its figures.
ArticleLoopDone ==
  pc = "article_return" /\ figures # <<>> /\ Len(envs) = Len(figures)

\* The collection as it was when the current article began.
BeforeArticle == SubSeq(metadata, 1, Len(metadata) - pairs_count)

\* The environment e, except that Image.open fails.
DecodeFails(e) == [e EXCEPT !.decode_ok = FALSE]

\* The entries the downloads 1..k of the current article added.
AddedUpTo(k) == Cardinality({m \in 1..k : DownloadSucceeds(envs[m])})

\* C9: take the finished download loop of an article and any figure k of it
\* whose download succeeded; the same loop with the decode of figure k
\* failing, all else equal, returns one pair less and appends the same
\* entries in the same order but for the entry of figure k.
C9_DecodeFailureCostsOnePair ==
  ArticleLoopDone =>
    LET pmc_id == pmc_ids[i + 1]
        run == FigureLoop(BeforeArticle, 0, figures, envs, 1, pmc_id) IN
    /\ run.pairs = metadata
    /\ run.count = pairs_count
    /\ \A k \in 1..Len(figures) :
         DownloadSucceeds(envs[k]) =>
           LET failing == [envs EXCEPT ![k] = DecodeFails(envs[k])]
               other == FigureLoop(BeforeArticle, 0, figures, failing, 1, pmc_id) IN
           /\ other.count = pairs_count - 1
           /\ other.pairs = RemoveAt(metadata, Len(BeforeArticle) + AddedUpTo(k))

\* Three figures, the decode of the second failed, the other two were saved:
\* two pairs, the entries of the first and the third figure.
C9_Witness ==
  /\ ArticleLoopDone
  /\ Len(figures) = 3
  /\ DownloadSucceeds(envs[1])
  /\ envs[2] = [page_exc |-> FALSE, page_status |-> HTTP_OK, match_src |-> TRUE,
                match_id |-> FALSE, image_exc |-> FALSE, image_status |-> HTTP_OK,
                decode_ok |-> FALSE]
  /\ DownloadSucceeds(envs[3])
  /\ pairs_count = 2
  /\ metadata[Len(metadata) - 1].figure_id = figures[1].figure_id
  /\ metadata[Len(metadata)].figure_id = figures[3].figure_id

\* -------------------------------------------------------------------- C10
\* At most the article at the loop index is in progress, and it is exactly
\* while the controlling thread is inside process_article.
OneAtATime ==
  /\ Cardinality(in_progress) <= 1
  /\ pc \in {"extract", "figures", "article_return"} => in_progress = {i}
  /\ pc \in {"start", "search_ids", "search_returned", "loop", "flush", "sleep",
             "returned"} => in_progress = {}
  /\ executor.submitted = 0

\* The identifiers are begun once each, in list order.
InListOrder ==
  /\ \A k \in 1..Len(started) : started[k] = k - 1
  /\ Len(started) <= Len(pmc_ids)
  /\ (pc = "returned" /\ pmc_ids # <<>>) => Len(started) = Len(pmc_ids)

\* The entries of an earlier article precede those of a later one.
GroupedByArticle ==
  \A a, b \in 1..Len(metadata) :
    a < b => ArticleIndexOf(metadata[a]) <= ArticleIndexOf(metadata[b])

\* C10: articles are processed one at a time, once each and in list order,
\* nothing is handed to the worker pool, the collection only ever grows at
\* its end, and it is grouped by article in list order.
C10_SequentialAppendOnly ==
  /\ [](OneAtATime /\ InListOrder /\ GroupedByArticle)
  /\ [][IsPrefix(metadata, metadata')]_vars

\* Two articles were processed to the end; the first added two entries and
\* the second one.
C10_Witness ==
  /\ pc = "returned"
  /\ started = <<0, 1>>
  /\ Len(metadata) = 3
  /\ metadata[1].pmc_id = pmc_ids[1]
  /\ metadata[1].figure_id # metadata[2].figure_id
  /\ metadata[2].pmc_id = pmc_ids[1]
  /\ metadata[3].pmc_id = pmc_ids[2]
  /\ executor.state = "shutdown"

====
